---- MODULE Spec2Model ----
(***************************************************************************)
(* Model of the mini NoSQL library catalog: the query/cleanup helpers of   *)
(* src/solutions.py run against a document collection, the record reader   *)
(* and format detector of scripts/ingest_openlibrary_dump.py, the author   *)
(* index builder, the works ingestion with its batch writer, and the       *)
(* legacy ingestion loop of scripts/ingest_openlibrary.py.                 *)
(*                                                                         *)
(* Python strings are modelled as sequences of one-character strings, so   *)
(* that prefix tests, lower-casing, ordering and date parsing are computed *)
(* rather than assumed.                                                    *)
(***************************************************************************)
EXTENDS Integers, Sequences, FiniteSets, TLC

VARIABLES
    col,        \* query helpers: the collection, a sequence of documents in store order
    last,       \* query helpers: the last operation, its arguments and what it returned
    pre,        \* query helpers: the collection as it was before the last operation
    scenario,   \* query helpers: which field the inserted documents vary in
    source,     \* reader: the lines of the dump file, each a sequence of tab-separated fields
    rop,        \* reader: the call in progress on the file
    det,        \* reader: what detect_record_parser returned
    lineno,     \* reader: the next line iter_records reads
    out,        \* reader: the records yielded so far, each with the line it came from
    authors,    \* ingestion: the author index (authors / authors_map)
    scanned,    \* author index builder: the records examined so far, in scan order
    ai,         \* author index builder: the enumerate index i
    scan_limit, \* author index builder: scan_limit, 0 for None
    apc,        \* author index builder: "scan" or "done"
    wi,         \* works ingestion: the number of records taken from the stream
    wlimit,     \* works ingestion: limit, 0 for None
    batch_size, \* works ingestion: batch_size
    batch,      \* works ingestion: the documents accumulated for the next insert
    inserted,   \* works ingestion: the inserted count
    seen,       \* works ingestion: seen
    kept,       \* works ingestion: kept
    calls,      \* works ingestion: the batches handed to the store, in order
    persisted,  \* works ingestion: the number of documents the store persisted
    wpc,        \* works ingestion: "idle", "loop", "flush", "done" or "crashed"
    mapped,     \* works ingestion: the documents built from eligible records, in order
    work,       \* earlier script: the work taken last, with the document built from it
    args,       \* main: the command line and the environment the run meets
    target,     \* main: the number of documents in the target collection
    pre_count,  \* main: pre_count
    total_inserted, \* main: total_inserted
    mpc,        \* main: the position of the run
    rc,         \* main: the exit status, -1 while the run has not ended
    dinput,     \* parse_date_maybe: the argument v
    dresult     \* parse_date_maybe: what the call returned

queryVars == <<col, last, pre, scenario>>

readerVars == <<source, rop, det, lineno, out>>

authorVars == <<scanned, ai, scan_limit, apc>>

worksVars == <<wi, wlimit, batch_size, batch, inserted, seen, kept, calls, persisted, wpc,
          mapped, work>>

ingestVars == <<authors, scanned, ai, scan_limit, apc,
                wi, wlimit, batch_size, batch, inserted, seen, kept, calls, persisted, wpc,
          mapped, work>>

mainVars == <<args, target, pre_count, total_inserted, mpc, rc>>

parseVars == <<dinput, dresult>>

vars == <<col, last, pre, scenario, source, rop, det, lineno, out,
          authors, scanned, ai, scan_limit, apc,
          wi, wlimit, batch_size, batch, inserted, seen, kept, calls, persisted, wpc,
          mapped, work,
          args, target, pre_count, total_inserted, mpc, rc, dinput, dresult>>

----------------------------------------------------------------------------
(* Bounds                                                                  *)

MaxDocs == 2
MaxLimit == 2
MaxLines == 2
MaxSample == 3
MaxAuthorRecords == 2
MaxWorks == 3
MaxBatch == 2
MaxTarget == 1
MaxIngested == 1

----------------------------------------------------------------------------
(* Characters and strings                                                  *)

DIGITS == <<"0", "1", "2", "3", "4", "5", "6", "7", "8", "9">>
UPPER == <<"A", "B", "C", "D", "E", "F", "G", "H", "I", "J", "K", "L", "M",
           "N", "O", "P", "Q", "R", "S", "T", "U", "V", "W", "X", "Y", "Z">>
LOWER == <<"a", "b", "c", "d", "e", "f", "g", "h", "i", "j", "k", "l", "m",
           "n", "o", "p", "q", "r", "s", "t", "u", "v", "w", "x", "y", "z">>

\* The characters the model uses, in code-point order.
CHARS == <<" ", "+", "-", ".", "/">> \o DIGITS \o <<":">> \o UPPER \o <<"_">> \o LOWER

Range(f) == {f[i] : i \in DOMAIN f}

IndexOf(c, seq) == CHOOSE i \in DOMAIN seq : seq[i] = c

Ord(c) == IndexOf(c, CHARS)

IsDigit(c) == c \in Range(DIGITS)

DigitVal(c) == IndexOf(c, DIGITS) - 1

AllDigits(s) == \A i \in DOMAIN s : IsDigit(s[i])

RECURSIVE NumVal(_)
NumVal(s) ==
    IF s = <<>> THEN 0
    ELSE 10 * NumVal(SubSeq(s, 1, Len(s) - 1)) + DigitVal(s[Len(s)])

\* str.lower on one character and on a string
LowerChar(c) == IF c \in Range(UPPER) THEN LOWER[IndexOf(c, UPPER)] ELSE c

Lower(s) == [i \in DOMAIN s |-> LowerChar(s[i])]

\* Python's ordering of str: lexicographic by code point
RECURSIVE StrLess(_, _)
StrLess(a, b) ==
    IF b = <<>> THEN FALSE
    ELSE IF a = <<>> THEN TRUE
    ELSE IF a[1] # b[1] THEN Ord(a[1]) < Ord(b[1])
    ELSE StrLess(Tail(a), Tail(b))

StrLeq(a, b) == a = b \/ StrLess(a, b)

\* str.strip(): leading and trailing blanks removed
RECURSIVE LStrip(_)
LStrip(s) == IF s # <<>> /\ s[1] = " " THEN LStrip(Tail(s)) ELSE s

RECURSIVE RStrip(_)
RStrip(s) ==
    IF s # <<>> /\ s[Len(s)] = " " THEN RStrip(SubSeq(s, 1, Len(s) - 1)) ELSE s

Strip(s) == RStrip(LStrip(s))

\* str.split(sep) for a one-character separator: the sequence of pieces
RECURSIVE Split(_, _)
Split(s, sep) ==
    IF \A i \in DOMAIN s : s[i] # sep THEN <<s>>
    ELSE LET k == CHOOSE i \in DOMAIN s :
                      s[i] = sep /\ \A j \in 1..(i - 1) : s[j] # sep
         IN  <<SubSeq(s, 1, k - 1)>> \o Split(SubSeq(s, k + 1, Len(s)), sep)

StartsWith(s, p) == Len(s) >= Len(p) /\ SubSeq(s, 1, Len(p)) = p

----------------------------------------------------------------------------
(* Stored values: a field of a document is missing, null, a string or a    *)
(* datetime.  A datetime is <<year, month, day, hour, minute, second>>.    *)

Missing == [t |-> "missing", s |-> <<>>, d |-> <<>>]
Null == [t |-> "null", s |-> <<>>, d |-> <<>>]
Str(s) == [t |-> "string", s |-> s, d |-> <<>>]
Date(d) == [t |-> "date", s |-> <<>>, d |-> d]

RECURSIVE TupleLess(_, _)
TupleLess(a, b) ==
    IF a = <<>> \/ b = <<>> THEN FALSE
    ELSE IF a[1] # b[1] THEN a[1] < b[1]
    ELSE TupleLess(Tail(a), Tail(b))

DateLess(a, b) == TupleLess(a.d, b.d)
DateLeq(a, b) == a.d = b.d \/ TupleLess(a.d, b.d)

----------------------------------------------------------------------------
(* Date Normalizer: parse_date_maybe                                       *)

\* The outcome of a call that raised an exception
Raise == [t |-> "raise", s |-> <<>>, d |-> <<>>]

IsLeap(y) == (y % 4 = 0 /\ y % 100 # 0) \/ y % 400 = 0

DaysInMonth(y, m) ==
    IF m = 2 THEN (IF IsLeap(y) THEN 29 ELSE 28)
    ELSE IF m \in {4, 6, 9, 11} THEN 30 ELSE 31

\* datetime(y, m, d, h, mi, s): raises ValueError outside the valid ranges
datetime(y, m, d, h, mi, s) ==
    IF /\ y \in 1..9999 /\ m \in 1..12 /\ d \in 1..DaysInMonth(y, m)
       /\ h \in 0..23 /\ mi \in 0..59 /\ s \in 0..59
    THEN Date(<<y, m, d, h, mi, s>>)
    ELSE Raise

\* The regular expressions strptime compiles the directives to:
\* %Y -> \d\d\d\d, %m -> 1[0-2]|0[1-9]|[1-9], %d -> 3[01]|[12]\d|0[1-9]|[1-9]| [1-9]
MatchDirective(dv, p) ==
    CASE dv = "Y" -> Len(p) = 4 /\ AllDigits(p)
      [] dv = "m" -> \/ Len(p) = 1 /\ IsDigit(p[1]) /\ p[1] # "0"
                     \/ Len(p) = 2 /\ AllDigits(p) /\ NumVal(p) \in 1..12
      [] dv = "d" -> \/ Len(p) = 1 /\ IsDigit(p[1]) /\ p[1] # "0"
                     \/ Len(p) = 2 /\ AllDigits(p) /\ NumVal(p) \in 1..31
                     \/ Len(p) = 2 /\ p[1] = " " /\ IsDigit(p[2]) /\ p[2] # "0"

DirectiveVal(p) == IF p[1] = " " THEN NumVal(Tail(p)) ELSE NumVal(p)

\* datetime.strptime(s, fmt) for a format of three directives joined by one
\* separator character; the whole string has to be consumed.
strptime(s, fmt) ==
    LET parts == Split(s, fmt.sep)
        pos(dv) == IndexOf(dv, fmt.order)
    IN  IF /\ Len(parts) = 3
           /\ \A i \in 1..3 : MatchDirective(fmt.order[i], parts[i])
        THEN datetime(DirectiveVal(parts[pos("Y")]), DirectiveVal(parts[pos("m")]),
                      DirectiveVal(parts[pos("d")]), 0, 0, 0)
        ELSE Raise

RECURSIVE LStripZeros(_)
LStripZeros(s) == IF s # <<>> /\ s[1] = "0" THEN LStripZeros(Tail(s)) ELSE s

\* int(s) of a stripped string: an optional sign, then digits with single
\* underscores allowed between them.  The value is capped above the largest
\* year so that long digit strings stay within the integers of the checker.
PyIntOk(s) ==
    LET body == IF s # <<>> /\ s[1] \in {"+", "-"} THEN Tail(s) ELSE s
    IN  /\ body # <<>>
        /\ \A i \in DOMAIN body : IsDigit(body[i]) \/ body[i] = "_"
        /\ IsDigit(body[1]) /\ IsDigit(body[Len(body)])
        /\ \A i \in 1..(Len(body) - 1) : ~(body[i] = "_" /\ body[i + 1] = "_")

PyIntVal(s) ==
    LET body == IF s[1] \in {"+", "-"} THEN Tail(s) ELSE s
        digits == SelectSeq(body, IsDigit)
        mag == IF Len(LStripZeros(digits)) > 4 THEN 10000 ELSE NumVal(digits)
    IN  IF s[1] = "-" THEN 0 - mag ELSE mag

\* The format tuple of parse_date_maybe, in its order; "%Y" is the last one.
fmts ==
    << [order |-> <<"Y", "m", "d">>, sep |-> "-"],
       [order |-> <<"d", "m", "Y">>, sep |-> "/"],
       [order |-> <<"m", "d", "Y">>, sep |-> "/"],
       [order |-> <<"Y", "m", "d">>, sep |-> "/"],
       [order |-> <<"Y", "m", "d">>, sep |-> "."],
       [order |-> <<"d", "m", "Y">>, sep |-> "-"],
       [order |-> <<"Y">>, sep |-> ""] >>

\* One pass of the loop body: the branch for "%Y" calls datetime(int(s), 1, 1)
TryFormat(s, fmt) ==
    IF fmt.order = <<"Y">>
    THEN (IF PyIntOk(s) THEN datetime(PyIntVal(s), 1, 1, 0, 0, 0) ELSE Raise)
    ELSE strptime(s, fmt)

\* s.replace("Z", "+00:00")
RECURSIVE ReplaceZ(_)
ReplaceZ(s) ==
    IF s = <<>> THEN <<>>
    ELSE (IF s[1] = "Z" THEN <<"+", "0", "0", ":", "0", "0">> ELSE <<s[1]>>)
         \o ReplaceZ(Tail(s))

\* HH, HH:MM or HH:MM:SS
TimeShape(p) ==
    /\ Len(p) \in {2, 5, 8}
    /\ \A i \in DOMAIN p : IF i \in {3, 6} THEN p[i] = ":" ELSE IsDigit(p[i])

TimeField(p, k) == IF Len(p) >= 3 * k - 1 THEN NumVal(SubSeq(p, 3 * k - 2, 3 * k - 1)) ELSE 0

\* datetime.fromisoformat(s).replace(tzinfo=None), for the forms every
\* supported interpreter accepts: YYYY-MM-DD, optionally followed by one
\* separator character, a time and a UTC offset.  The offset is dropped, the
\* wall-clock fields are kept.
fromisoformat(s) ==
    LET rest == SubSeq(s, 12, Len(s))
        cut == IF \E i \in DOMAIN rest : rest[i] \in {"+", "-"}
               THEN CHOOSE i \in DOMAIN rest :
                        rest[i] \in {"+", "-"} /\ \A j \in 1..(i - 1) : rest[j] \notin {"+", "-"}
               ELSE Len(rest) + 1
        tm == SubSeq(rest, 1, cut - 1)
        tz == SubSeq(rest, cut + 1, Len(rest))
        dateOk == /\ Len(s) >= 10
                  /\ \A i \in 1..10 : IF i \in {5, 8} THEN s[i] = "-" ELSE IsDigit(s[i])
        tzOk == \/ cut = Len(rest) + 1
                \/ /\ TimeShape(tz) /\ Len(tz) = 5
                   /\ TimeField(tz, 1) \in 0..23 /\ TimeField(tz, 2) \in 0..59
    IN  IF ~dateOk THEN Raise
        ELSE IF Len(s) = 10
        THEN datetime(NumVal(SubSeq(s, 1, 4)), NumVal(SubSeq(s, 6, 7)),
                      NumVal(SubSeq(s, 9, 10)), 0, 0, 0)
        ELSE IF Len(s) >= 12 /\ TimeShape(tm) /\ tzOk
        THEN datetime(NumVal(SubSeq(s, 1, 4)), NumVal(SubSeq(s, 6, 7)),
                      NumVal(SubSeq(s, 9, 10)),
                      TimeField(tm, 1), TimeField(tm, 2), TimeField(tm, 3))
        ELSE Raise

\* The for loop over fmts from position i on, then the ISO 8601 fallback
RECURSIVE ParseFrom(_, _)
ParseFrom(s, i) ==
    IF i > Len(fmts)
    THEN (LET r == fromisoformat(ReplaceZ(s)) IN IF r = Raise THEN Null ELSE r)
    ELSE LET r == TryFormat(s, fmts[i])
         IN  IF r # Raise THEN r ELSE ParseFrom(s, i + 1)

ParseDateUnlessEmpty(s) == IF s = <<>> THEN Null ELSE ParseFrom(s, 1)

\* A variant that hands an unparseable string back instead of None
parse_date_maybe_keeps_unparsed(v) ==
    IF v.t \in {"null", "missing", "date"} THEN (IF v.t = "missing" THEN Null ELSE v)
    ELSE LET r == ParseDateUnlessEmpty(Strip(v.s)) IN IF r = Null THEN v ELSE r

\* parse_date_maybe(v): None and datetimes are returned as they are
parse_date_maybe(v) ==
    IF v.t \in {"null", "missing", "date"} THEN (IF v.t = "missing" THEN Null ELSE v)
    ELSE ParseDateUnlessEmpty(Strip(v.s))

----------------------------------------------------------------------------
(* The collection of the query helpers.  A document is a record of the     *)
(* fields the helpers read; its position in the sequence stands for its    *)
(* _id (the store keeps _id unique, and update_one addresses one document  *)
(* by it).                                                                 *)

sBob == <<"B", "o", "b">>
sAda == <<"A", "d", "a">>
sada == <<"a", "d", "a">>
sKafka == <<"K", "a", "f", "k", "a">>
sUK == <<"U", "K">>
sFrance == <<"F", "r", "a", "n", "c", "e">>
sUnknown == <<"U", "n", "k", "n", "o", "w", "n">>
s1925_04_26 == <<"1", "9", "2", "5", "-", "0", "4", "-", "2", "6">>
s1815_12_10 == <<"1", "8", "1", "5", "-", "1", "2", "-", "1", "0">>
s01_02_1999 == <<"0", "1", "/", "0", "2", "/", "1", "9", "9", "9">>
s99 == <<"9", "9">>
sNotADate == <<"s", "o", "o", "n">>

BaseDoc ==
    [author_first_name |-> Str(sBob), author_last_name |-> Str(sKafka),
     country |-> Str(sUK), published_date |-> Date(<<1925, 4, 26, 0, 0, 0>>),
     out_of_print_date |-> Null]

\* The documents a caller may insert: the base document with one field varied
\* over missing, null, the empty string and the other values of its kind.  A
\* run seeds its collection with documents that vary in the same field.
Scenarios == {"first_name", "last_name", "country", "dates"}

DocUniverse(scn) ==
    {BaseDoc} \cup
    CASE scn = "first_name" ->
            {[BaseDoc EXCEPT !.author_first_name = v] :
                v \in {Missing, Null, Str(<<>>), Str(sAda), Str(sada)}}
      [] scn = "last_name" ->
            {[BaseDoc EXCEPT !.author_last_name = v] : v \in {Missing, Null, Str(<<>>)}}
      [] scn = "country" ->
            {[BaseDoc EXCEPT !.country = v] :
                v \in {Missing, Null, Str(<<>>), Str(sFrance)}}
      [] scn = "dates" ->
            {[BaseDoc EXCEPT !.published_date = v] :
                v \in {Missing, Str(s1815_12_10), Str(s01_02_1999),
                       Str(sNotADate), Date(<<1815, 12, 10, 0, 0, 0>>)}}
            \cup {[BaseDoc EXCEPT !.out_of_print_date = Str(s99)]}

\* sorted(seq, key=...): a stable sort under a strict order.  An element goes
\* after every smaller one and after every earlier one with an equal key.
Sorted(s, Less(_, _)) ==
    LET n == Len(s)
        rank(i) == 1 + Cardinality({j \in 1..n :
                        Less(s[j], s[i]) \/ (~Less(s[i], s[j]) /\ j < i)})
    IN  [k \in 1..n |-> s[CHOOSE i \in 1..n : rank(i) = k]]

\* delete_many({"$or": [{"author_last_name": ""}, {"author_last_name": None}]}):
\* an equality match on None also matches a document without the field.
MatchesEmptyOnly(d) == d.author_last_name = Str(<<>>)

MatchesEmptyOrNull(d) ==
    \/ d.author_last_name = Str(<<>>)
    \/ d.author_last_name.t \in {"null", "missing"}

KeepsLastName(d) == ~MatchesEmptyOrNull(d)

remove_empty_or_null_author_last_name(c) ==
    LET rest == SelectSeq(c, KeepsLastName)
    IN  [col |-> rest, ret |-> Len(c) - Len(rest)]

\* col.distinct(f): each value once (compared exactly), in order of first
\* appearance; a document without the field contributes nothing.
RECURSIVE distinct(_, _)
distinct(c, f) ==
    IF c = <<>> THEN <<>>
    ELSE LET front == distinct(SubSeq(c, 1, Len(c) - 1), f)
             v == c[Len(c)][f]
         IN  IF v.t = "missing" \/ v \in Range(front) THEN front ELSE Append(front, v)

NotNoneOrEmpty(v) == v # Null /\ v # Str(<<>>)

\* A variant that sorts without key=str.lower
PlainKeyLess(a, b) == StrLess(a.s, b.s)

LowerKeyLess(a, b) == StrLess(Lower(a.s), Lower(b.s))

unique_author_first_names(c) ==
    Sorted(SelectSeq(distinct(c, "author_first_name"), NotNoneOrEmpty), LowerKeyLess)

\* The loop body of convert_date_fields for the document at position i:
\* update_one reports modified_count 1 when $set changed the stored value.
ConvertOne(st, f, i) ==
    LET d == st.col[i]
        new_val == parse_date_maybe(d[f])
    IN  IF d[f].t # "string" THEN st
        ELSE [col |-> [st.col EXCEPT ![i] = [d EXCEPT ![f] = new_val]],
              ret |-> st.ret + (IF new_val # d[f] THEN 1 ELSE 0)]

RECURSIVE ConvertField(_, _, _)
ConvertField(st, f, i) ==
    IF i > Len(st.col) THEN st ELSE ConvertField(ConvertOne(st, f, i), f, i + 1)

RECURSIVE ConvertFields(_, _)
ConvertFields(st, fields) ==
    IF fields = <<>> THEN st
    ELSE ConvertFields(ConvertField(st, fields[1], 1), Tail(fields))

convert_date_fields(c, fields) == ConvertFields([col |-> c, ret |-> 0], fields)

\* The projection of oldest_by_published_date (without _id)
Project(d) ==
    [author_first_name |-> d.author_first_name, author_last_name |-> d.author_last_name,
     country |-> d.country, published_date |-> d.published_date]

\* A variant whose filter also lets string dates through
IsDateOrString(d) == d.published_date.t \in {"date", "string"}

\* {"published_date": {"$type": "date"}}
IsDate(d) == d.published_date.t = "date"

\* cursor.sort("published_date", 1): the store leaves the order of documents
\* with equal keys open, so every ascending arrangement is a possible result.
\* The arrangements are built front to back: any document with the smallest
\* key may come next.
RECURSIVE AscendingOrdersOf(_, _)
AscendingOrdersOf(s, left) ==
    IF left = {} THEN {<<>>}
    ELSE LET firsts == {i \in left : \A j \in left :
                            DateLeq(s[i].published_date, s[j].published_date)}
         IN  UNION {{<<s[i]>> \o r : r \in AscendingOrdersOf(s, left \ {i})} : i \in firsts}

AscendingOrders(s) == AscendingOrdersOf(s, DOMAIN s)

\* cursor.limit(n): n = 0 means no limit
Limit(s, n) == IF n = 0 \/ n >= Len(s) THEN s ELSE SubSeq(s, 1, n)

\* The set of results oldest_by_published_date(col, limit) can return
oldest_by_published_date(c, limit) ==
    LET found == SelectSeq(c, IsDate)
        projected == [i \in 1..Len(found) |-> Project(found[i])]
    IN  {Limit(s, limit) : s \in AscendingOrders(projected)}

DefaultLimit == 10

ten_oldest_books(c) == oldest_by_published_date(c, DefaultLimit)

\* d.get("country") or "Unknown": every falsy value becomes "Unknown"
CountryOrUnknown(d) ==
    IF d.country.t \in {"missing", "null"} \/ d.country.s = <<>> THEN sUnknown
    ELSE d.country.s

\* Counter(...) turned into a dict: country -> count
count_by_country_python(c) ==
    LET keys == {CountryOrUnknown(c[i]) : i \in DOMAIN c}
    IN  [k \in keys |-> Cardinality({i \in DOMAIN c : CountryOrUnknown(c[i]) = k})]

\* {"$ifNull": ["$country", "Unknown"]}: only null and missing are replaced
IfNullCountry(d) ==
    IF d.country.t \in {"missing", "null"} THEN sUnknown ELSE d.country.s

\* {"$sort": {"count": -1, "_id": 1}}
GroupLess(a, b) == a.count > b.count \/ (a.count = b.count /\ StrLess(a.id, b.id))

SetToSortedSeq(S, Less(_, _)) ==
    [k \in 1..Cardinality(S) |->
        CHOOSE x \in S : Cardinality({y \in S : Less(y, x)}) = k - 1]

\* The list of {"_id": country, "count": n} the pipeline returns; the field
\* id stands for _id.
count_by_country_pipeline(c) ==
    LET keys == {IfNullCountry(c[i]) : i \in DOMAIN c}
        groups == {[id |-> k,
                    count |-> Cardinality({i \in DOMAIN c : IfNullCountry(c[i]) = k})] :
                   k \in keys}
    IN  SetToSortedSeq(groups, GroupLess)

\* {r["_id"]: r["count"] for r in agg}, as the test builds it
AggDict(agg) ==
    [k \in {agg[i].id : i \in DOMAIN agg} |->
        (CHOOSE r \in Range(agg) : r.id = k).count]

----------------------------------------------------------------------------
(* Record Format Detector and Record Stream Reader.  A line is the         *)
(* sequence of its tab-separated fields (<<"">> is the empty line); a      *)
(* field is one of a few texts whose JSON reading is known.                *)

\* json.loads of the texts that are JSON; the other texts raise.
JsonTexts == {"{A}", "5", "null"}

JsonValue(text) ==
    CASE text = "{A}" -> [t |-> "dict", id |-> "A"]
      [] text = "5" -> [t |-> "int", id |-> "5"]
      [] text = "null" -> [t |-> "none", id |-> ""]

None == [t |-> "none", id |-> ""]

NonEmptyField(f) == f # ""

\* _try_parse_json(s), s given by its tab-separated fields: JSON allows
\* whitespace (tabs included) around the one value, and nothing else; a
\* failure and the JSON value null both come back as None.
_try_parse_json(fields) ==
    LET texts == SelectSeq(fields, NonEmptyField)
    IN  IF Len(texts) = 1 /\ texts[1] \in JsonTexts THEN JsonValue(texts[1]) ELSE None

\* line.strip(): leading and trailing whitespace, tabs included, is removed
RECURSIVE StripFields(_)
StripFields(fields) ==
    IF fields = <<>> THEN <<>>
    ELSE IF fields[1] = "" THEN StripFields(Tail(fields))
    ELSE IF fields[Len(fields)] = "" THEN StripFields(SubSeq(fields, 1, Len(fields) - 1))
    ELSE fields

\* "\t" in line
HasTab(fields) == Len(fields) >= 2

\* A variant that reads the second column instead of the last one
SecondField(fields) == <<fields[2]>>

\* parts[-1] of line.split("\t")
LastField(fields) == <<fields[Len(fields)]>>

\* One pass of the sampling loop of detect_record_parser over a line that was
\* read (not the end of the file)
SampleLine(hits, rawline) ==
    LET line == StripFields(rawline)
    IN  IF line = <<>> THEN hits
        ELSE IF _try_parse_json(line) # None
        THEN [hits EXCEPT !.json_hits = @ + 1]
        ELSE IF HasTab(line) /\ _try_parse_json(LastField(line)) # None
        THEN [hits EXCEPT !.tsv_hits = @ + 1]
        ELSE hits

RECURSIVE SampleLines(_, _, _)
SampleLines(src, sample, i) ==
    IF i = 0 THEN [json_hits |-> 0, tsv_hits |-> 0]
    ELSE SampleLine(SampleLines(src, sample, i - 1), src[i])

ChooseMode(hits) ==
    IF hits.tsv_hits > 0 /\ hits.tsv_hits >= hits.json_hits THEN "tsv_json" ELSE "json"

\* A variant whose counters are reset inside the loop, so that only the last
\* sampled line counts
detect_record_parser_last_line_only(src, sample) ==
    LET n == IF sample <= Len(src) THEN sample ELSE Len(src)
        hits == IF n = 0 THEN [json_hits |-> 0, tsv_hits |-> 0]
                ELSE SampleLine([json_hits |-> 0, tsv_hits |-> 0], src[n])
    IN  [mode |-> ChooseMode(hits), json_hits |-> hits.json_hits,
         tsv_hits |-> hits.tsv_hits]

\* detect_record_parser(path, sample): at most `sample` lines are read, blank
\* ones included; the loop ends early at the end of the file.
detect_record_parser(src, sample) ==
    LET n == IF sample <= Len(src) THEN sample ELSE Len(src)
        hits == SampleLines(src, sample, n)
    IN  [mode |-> ChooseMode(hits), json_hits |-> hits.json_hits,
         tsv_hits |-> hits.tsv_hits]

DefaultSample == 50

\* iter_lines: the lines that are not empty once the newline is removed
IsYieldedLine(line) == line # <<"">>

\* The records iter_records yields for one line of iter_lines, in order
RecordsOfLine(mode, line) ==
    IF mode = "json"
    THEN IF _try_parse_json(line) # None THEN <<_try_parse_json(line)>>
         ELSE IF HasTab(line) /\ _try_parse_json(LastField(line)) # None
         THEN <<_try_parse_json(LastField(line))>>
         ELSE <<>>
    ELSE IF HasTab(line) /\ _try_parse_json(LastField(line)) # None
         THEN <<_try_parse_json(LastField(line))>>
         ELSE IF _try_parse_json(line) # None THEN <<_try_parse_json(line)>>
         ELSE <<>>

\* parse_dump_line of the legacy script: the second column if it is JSON,
\* else the whole line, else None
parse_dump_line(line) ==
    IF Len(line) >= 2 /\ line[2] \in JsonTexts THEN JsonValue(line[2])
    ELSE _try_parse_json(line)

\* The fields a line is made of, and the lines of a dump file: every line of
\* up to three fields over an empty field, a key and an object, and the
\* lines that carry a date, a number or null.
BasicFields == {"", "somekey", "{A}"}

LineUniverse ==
    {<<a>> : a \in BasicFields}
    \cup {<<a, b>> : a \in BasicFields, b \in BasicFields}
    \cup {<<a, b, c>> : a \in BasicFields, b \in BasicFields, c \in BasicFields}
    \cup {<<"somekey", "{A}", "2020-01-01">>, <<"somekey", "2020-01-01", "{A}">>,
          <<"somekey", "{A}", "5">>, <<"somekey", "5">>, <<"somekey", "null">>,
          <<"5">>, <<"null">>, <<"2020-01-01">>}

NoDet == [sample |-> 0, mode |-> "", json_hits |-> 0, tsv_hits |-> 0]

ReaderIdle ==
    /\ source = <<>>
    /\ rop = "write"
    /\ det = NoDet
    /\ lineno = 0
    /\ out = <<>>

\* The dump file is written, a line at a time, before anything reads it
AppendLine ==
    /\ rop = "write"
    /\ Len(source) < MaxLines
    /\ \E line \in LineUniverse : source' = Append(source, line)
    /\ UNCHANGED <<rop, det, lineno, out>>

\* A call of detect_record_parser with a sample size of its own
DetectRecordParser ==
    /\ rop = "write"
    /\ \E sample \in 1..MaxSample :
        LET r == detect_record_parser(source, sample)
        IN  det' = [sample |-> sample, mode |-> r.mode,
                    json_hits |-> r.json_hits, tsv_hits |-> r.tsv_hits]
    /\ rop' = "detect"
    /\ UNCHANGED <<source, lineno, out>>

\* iter_records up to its loop: the mode is detected with the default sample
IterRecordsStart ==
    /\ rop = "write"
    /\ LET r == detect_record_parser(source, DefaultSample)
       IN  det' = [sample |-> DefaultSample, mode |-> r.mode,
                   json_hits |-> r.json_hits, tsv_hits |-> r.tsv_hits]
    /\ rop' = "iter"
    /\ lineno' = 1
    /\ out' = <<>>
    /\ UNCHANGED source

\* One line of the loop of iter_records
IterRecordsLine ==
    /\ rop = "iter"
    /\ lineno <= Len(source)
    /\ LET recs == IF IsYieldedLine(source[lineno])
                   THEN RecordsOfLine(det.mode, source[lineno]) ELSE <<>>
       IN  out' = out \o [i \in DOMAIN recs |-> [line |-> lineno, rec |-> recs[i]]]
    /\ lineno' = lineno + 1
    /\ UNCHANGED <<source, rop, det>>

\* The scan of the legacy script: parse_dump_line on every line, falsy
\* results skipped
LegacyScan ==
    /\ rop = "write"
    /\ rop' = "legacy"
    /\ lineno' = Len(source) + 1
    /\ LET keep == {i \in DOMAIN source : parse_dump_line(source[i]) # None}
           recs == [i \in DOMAIN source |-> [line |-> i, rec |-> parse_dump_line(source[i])]]
       IN  out' = SelectSeq(recs, LAMBDA r : r.line \in keep)
    /\ UNCHANGED <<source, det>>

NextReader ==
    \/ (AppendLine /\ UNCHANGED <<queryVars, ingestVars, mainVars, parseVars>>)
    \/ (DetectRecordParser /\ UNCHANGED <<queryVars, ingestVars, mainVars, parseVars>>)
    \/ (IterRecordsStart /\ UNCHANGED <<queryVars, ingestVars, mainVars, parseVars>>)
    \/ (IterRecordsLine /\ UNCHANGED <<queryVars, ingestVars, mainVars, parseVars>>)
    \/ (LegacyScan /\ UNCHANGED <<queryVars, ingestVars, mainVars, parseVars>>)

----------------------------------------------------------------------------
(* Open Library records.  A decoded record is a dict (kind "dict") with    *)
(* the fields the ingestion reads, or some other JSON value.  A field is   *)
(* missing, null, a string, or for "type" a dict {"key": <string>}.        *)

Dict(k) == [t |-> "dict", s |-> k, d |-> <<>>]

sTypePrefix == <<"/", "t", "y", "p", "e", "/">>
sAuthorsPrefix == <<"/", "a", "u", "t", "h", "o", "r", "s", "/">>
sWorksPrefix == <<"/", "w", "o", "r", "k", "s", "/">>
sAuthor == <<"a", "u", "t", "h", "o", "r">>
sWork == <<"w", "o", "r", "k">>
kOL1A == sAuthorsPrefix \o <<"O", "L", "1", "A">>
kOL2A == sAuthorsPrefix \o <<"O", "L", "2", "A">>
kOL9 == <<"O", "L", "9">>
kOL1W == sWorksPrefix \o <<"O", "L", "1", "W">>
kOL2W == sWorksPrefix \o <<"O", "L", "2", "W">>
sJaneQDoe == <<"J", "a", "n", "e", " ", "Q", ".", " ", "D", "o", "e">>
sJoan == <<"J", "o", "a", "n">>
sJDoe == <<"J", ".", " ", "D", "o", "e">>
sT == <<"T">>
s1999 == <<"1", "9", "9", "9">>

\* dict.get(field): None for a missing field
Get(v) == IF v.t = "missing" THEN Null ELSE v

\* Python truthiness of a field value
Truthy(v) == v.t \notin {"missing", "null"} /\ ~(v.t = "string" /\ v.s = <<>>)

\* _normalize_type(value)
_normalize_type(value) ==
    IF value.t \in {"missing", "null"} THEN Null
    ELSE LET v == IF value.t = "dict" THEN Str(value.s) ELSE value
         IN  IF v.t = "string"
             THEN (IF StartsWith(v.s, sTypePrefix)
                   THEN Str(SubSeq(v.s, Len(sTypePrefix) + 1, Len(v.s)))
                   ELSE v)
             ELSE Null

\* A variant without the fallback on the key prefix
_is_type_by_type_only(doc, expected) == _normalize_type(doc.type) = Str(expected)

\* _is_type(doc, expected)
_is_type(doc, expected) ==
    \/ _normalize_type(doc.type) = Str(expected)
    \/ LET k == IF Truthy(doc.key) THEN doc.key ELSE Str(<<>>)
       IN  /\ k.t = "string"
           /\ \/ expected = sAuthor /\ StartsWith(k.s, sAuthorsPrefix)
              \/ expected = sWork /\ StartsWith(k.s, sWorksPrefix)

NonDictRecord ==
    [kind |-> "int", type |-> Missing, key |-> Missing, name |-> Missing,
     personal_name |-> Missing]

\* The author records of a dump: every combination of a type, a key and a
\* pair of name and personal_name, and a record that is no dict.
AuthorRecords ==
    {[kind |-> "dict", type |-> ty, key |-> k, name |-> nm[1], personal_name |-> nm[2]] :
        ty \in {Missing, Str(sTypePrefix \o sAuthor), Dict(sTypePrefix \o sAuthor),
                Str(sTypePrefix \o sWork)},
        k \in {Missing, Str(<<>>), Str(kOL1A), Str(kOL9)},
        nm \in {<<Missing, Missing>>, <<Str(<<>>), Missing>>, <<Str(<<>>), Str(sJDoe)>>,
                <<Str(sJaneQDoe), Str(sJDoe)>>, <<Str(sJoan), Missing>>}}
    \cup {NonDictRecord}

\* A variant that takes the personal name only when "name" is missing, not
\* when it is empty
NameOfNoFallbackOnEmpty(rec) ==
    IF rec.name.t = "missing" THEN Get(rec.personal_name) ELSE rec.name

\* rec.get("name") or rec.get("personal_name")
NameOf(rec) == IF Truthy(rec.name) THEN rec.name ELSE Get(rec.personal_name)

\* The loop body of build_authors_map for a record that is examined
AuthorsAfter(m, rec) ==
    IF rec.kind # "dict" THEN m
    ELSE IF ~_is_type(rec, sAuthor) THEN m
    ELSE IF ~Truthy(rec.key) THEN m
    ELSE IF ~Truthy(NameOf(rec)) THEN m
    ELSE [k \in DOMAIN m \cup {rec.key.s} |->
            IF k = rec.key.s THEN NameOf(rec).s ELSE m[k]]

EmptyMap == [k \in {} |-> <<>>]

NoWork == [rec |-> NonDictRecord, doc |-> Null]

WorksIdle ==
    /\ wi = 0 /\ wlimit = 0 /\ batch_size = 1 /\ batch = <<>> /\ inserted = 0
    /\ seen = 0 /\ kept = 0 /\ calls = <<>> /\ persisted = 0 /\ wpc = "idle"
    /\ mapped = <<>> /\ work = NoWork

AuthorsIdle == scanned = <<>> /\ ai = 0 /\ scan_limit = 0 /\ apc = "done"

IngestIdle == authors = EmptyMap /\ AuthorsIdle /\ WorksIdle

\* build_authors_map takes the next record of iter_records: the loop breaks
\* when the scan limit is reached, otherwise the record is examined.
ScanAuthor ==
    /\ apc = "scan"
    /\ ai < MaxAuthorRecords
    /\ \E rec \in AuthorRecords :
        IF scan_limit # 0 /\ ai >= scan_limit
        THEN /\ apc' = "done"
             /\ UNCHANGED <<authors, scanned, ai>>
        ELSE /\ authors' = AuthorsAfter(authors, rec)
             /\ scanned' = Append(scanned, rec)
             /\ ai' = ai + 1
             /\ apc' = apc
    /\ UNCHANGED <<scan_limit, worksVars>>

\* iter_records is exhausted
AuthorsExhausted ==
    /\ apc = "scan"
    /\ apc' = "done"
    /\ UNCHANGED <<authors, scanned, ai, scan_limit, worksVars>>

----------------------------------------------------------------------------
(* Works ingestion of the dump script (ingest_works, _insert_batch)        *)

\* An author reference {"author": {"key": k}}; Missing stands for a
\* reference without an author or without a key.
WorkAuthorLists ==
    {[t |-> "missing", refs |-> <<>>]}
    \cup {[t |-> "list", refs |-> r] :
            r \in {<<Str(kOL2A)>>, <<Str(kOL2A), Str(kOL1A)>>, <<Str(kOL1A), Str(kOL9)>>,
                   <<Missing, Str(kOL1A)>>}}

WorkKinds ==
    {<<Str(sTypePrefix \o sWork), Str(kOL1W)>>, <<Missing, Str(kOL2W)>>,
     <<Dict(sTypePrefix \o sAuthor), Str(kOL1A)>>}

\* The work records of a dump: every combination of a type and key, a title
\* and a list of author references.
WorkRecords ==
    {[kind |-> "dict", type |-> tk[1], key |-> tk[2], title |-> ti, authors |-> au,
      first_publish_date |-> Missing] :
        tk \in WorkKinds, ti \in {Missing, Str(<<>>), Str(sT)}, au \in WorkAuthorLists}

\* The author indexes the works are resolved against
AuthorIndexes ==
    {EmptyMap,
     [k \in {kOL1A} |-> sJaneQDoe],
     [k \in {kOL1A, kOL9} |-> IF k = kOL1A THEN sJaneQDoe ELSE sJoan]}

\* rec.get("authors", []) or []
RefsOf(rec) == IF rec.authors.t = "missing" THEN <<>> ELSE rec.authors.refs

\* A variant that keeps a placeholder for a reference that does not resolve
ResolvedNamesOrPlaceholder(rec, m) ==
    [i \in DOMAIN RefsOf(rec) |->
        IF Truthy(RefsOf(rec)[i]) /\ RefsOf(rec)[i].s \in DOMAIN m
        THEN m[RefsOf(rec)[i].s] ELSE <<>>]

RECURSIVE NamesFrom(_, _)
NamesFrom(refs, m) ==
    IF refs = <<>> THEN <<>>
    ELSE LET k == Head(refs)
         IN  (IF Truthy(k) /\ k.s \in DOMAIN m THEN <<m[k.s]>> ELSE <<>>)
             \o NamesFrom(Tail(refs), m)

\* names: the display names of the references that resolve, in order
ResolvedNames(rec, m) == NamesFrom(RefsOf(rec), m)

\* The document ingest_works builds from a work record
WorkDoc(rec, m) ==
    [key |-> Get(rec.key), title |-> Get(rec.title), authors |-> ResolvedNames(rec, m),
     subjects |-> <<>>]

\* _insert_batch(col, batch) when the store accepts the documents at the
\* positions in accepted: the length of inserted_ids when all are accepted,
\* otherwise nInserted of the BulkWriteError details
_insert_batch(b, accepted) ==
    IF accepted = DOMAIN b THEN Len(b) ELSE Cardinality(accepted)

\* A variant that inserts only once the batch holds more than batch_size
BatchOverfull(b, size) == Len(b) > size

\* len(batch) >= batch_size
BatchFull(b, size) == Len(b) >= size

\* One iteration of the loop of ingest_works, with the insert of a full batch
IngestWork ==
    /\ wpc = "loop"
    /\ wi < MaxWorks
    /\ \E rec \in WorkRecords :
        IF wlimit # 0 /\ wi >= wlimit
        THEN /\ wpc' = "flush"
             /\ UNCHANGED <<wi, batch, inserted, seen, kept, calls, persisted, mapped>>
        ELSE /\ wi' = wi + 1
             /\ wpc' = wpc
             /\ IF rec.kind # "dict" \/ ~_is_type(rec, sWork)
                THEN UNCHANGED <<batch, inserted, seen, kept, calls, persisted, mapped>>
                ELSE /\ seen' = seen + 1
                     /\ IF ResolvedNames(rec, authors) = <<>>
                        THEN UNCHANGED <<batch, inserted, kept, calls, persisted, mapped>>
                        ELSE LET b == Append(batch, WorkDoc(rec, authors))
                             IN  /\ kept' = kept + 1
                                 /\ mapped' = Append(mapped, WorkDoc(rec, authors))
                                 /\ IF BatchFull(b, batch_size)
                                    THEN \E accepted \in SUBSET DOMAIN b :
                                            /\ inserted' = inserted + _insert_batch(b, accepted)
                                            /\ persisted' = persisted + Cardinality(accepted)
                                            /\ calls' = Append(calls, b)
                                            /\ batch' = <<>>
                                    ELSE /\ batch' = b
                                         /\ UNCHANGED <<inserted, calls, persisted>>
    /\ UNCHANGED <<authors, authorVars, wlimit, batch_size, work>>

\* iter_records is exhausted
WorksExhausted ==
    /\ wpc = "loop"
    /\ wpc' = "flush"
    /\ UNCHANGED <<authors, authorVars, wi, wlimit, batch_size, batch, inserted, seen, kept,
                   calls, persisted, mapped, work>>

\* The book records of a JSON sample: a title, "authors" (missing, a list or
\* a string), the fallback "author", and a value that is no dict
JsonBookRecords ==
    {[kind |-> "dict", title |-> ti, authors |-> au, author |-> a1] :
        ti \in {Missing, Str(<<>>), Str(sT)},
        au \in {[t |-> "missing", v |-> <<>>], [t |-> "list", v |-> <<>>],
                [t |-> "list", v |-> <<sJoan, sJDoe>>], [t |-> "string", v |-> <<sJaneQDoe>>]},
        a1 \in {[t |-> "missing", v |-> <<>>], [t |-> "string", v |-> <<sJoan>>],
                [t |-> "int", v |-> <<>>]}}
    \cup {[kind |-> "int", title |-> Missing, authors |-> [t |-> "missing", v |-> <<>>],
           author |-> [t |-> "missing", v |-> <<>>]]}

\* Python truth of an "authors" or "author" value
TruthyAuthors(a) == a.t = "int" \/ (a.t \in {"list", "string"} /\ a.v # <<>>)

\* _coerce_book_doc(rec): None, or the document; a string author is wrapped
\* in a list (v holds the one name)
_coerce_book_doc(rec) ==
    IF rec.kind # "dict" THEN None
    ELSE LET au == IF TruthyAuthors(rec.authors) THEN rec.authors
                   ELSE IF TruthyAuthors(rec.author) THEN rec.author
                   ELSE [t |-> "list", v |-> <<>>]
         IN  IF ~Truthy(rec.title) \/ au.t \notin {"list", "string"} \/ au.v = <<>>
             THEN None
             ELSE [title |-> rec.title, authors |-> au.v, subjects |-> <<>>]

\* One iteration of a loop of ingest_json_books (array or JSON Lines), with
\* the insert of a full batch
IngestJsonBook ==
    /\ wpc = "json"
    /\ wi < MaxWorks
    /\ \E rec \in JsonBookRecords :
        /\ wi' = wi + 1
        /\ IF _coerce_book_doc(rec) = None
           THEN UNCHANGED <<batch, inserted, kept, calls, persisted, mapped>>
           ELSE LET b == Append(batch, _coerce_book_doc(rec))
                IN  /\ kept' = kept + 1
                    /\ mapped' = Append(mapped, _coerce_book_doc(rec))
                    /\ IF BatchFull(b, batch_size)
                       THEN \E accepted \in SUBSET DOMAIN b :
                               /\ inserted' = inserted + _insert_batch(b, accepted)
                               /\ persisted' = persisted + Cardinality(accepted)
                               /\ calls' = Append(calls, b)
                               /\ batch' = <<>>
                       ELSE /\ batch' = b
                            /\ UNCHANGED <<inserted, calls, persisted>>
    /\ UNCHANGED <<authors, authorVars, wlimit, batch_size, seen, wpc, work>>

\* The data of the JSON sample is exhausted
JsonExhausted ==
    /\ wpc = "json"
    /\ wpc' = "flush"
    /\ UNCHANGED <<authors, authorVars, wi, wlimit, batch_size, batch, inserted, seen, kept,
                   calls, persisted, mapped, work>>

\* The insert of the last, partial batch and the return of inserted
FinalInsert ==
    /\ wpc = "flush"
    /\ wpc' = "done"
    /\ IF batch # <<>>
       THEN \E accepted \in SUBSET DOMAIN batch :
                /\ inserted' = inserted + _insert_batch(batch, accepted)
                /\ persisted' = persisted + Cardinality(accepted)
                /\ calls' = Append(calls, batch)
                /\ batch' = <<>>
       ELSE UNCHANGED <<batch, inserted, calls, persisted>>
    /\ UNCHANGED <<authors, authorVars, wi, wlimit, batch_size, seen, kept, mapped, work>>

----------------------------------------------------------------------------
(* The earlier ingestion script (ingest_openlibrary.py): split_name,       *)
(* to_book_doc and the loop of main                                        *)

NonEmptyPiece(p) == p # <<>>

RECURSIVE JoinWords(_)
JoinWords(ws) ==
    IF Len(ws) = 1 THEN ws[1] ELSE ws[1] \o <<" ">> \o JoinWords(Tail(ws))

\* split_name(full): the pair (first, last); a single token is the first
\* name.  A name of blanks only has no tokens and tokens[-1] raises.
split_name(full) ==
    LET tokens == SelectSeq(Split(Strip(full), " "), NonEmptyPiece)
    IN  IF full = <<>> THEN <<Null, Null>>
        ELSE IF Len(tokens) = 1 THEN <<Str(tokens[1]), Null>>
        ELSE IF tokens = <<>> THEN <<Raise, Raise>>
        ELSE <<Str(JoinWords(SubSeq(tokens, 1, Len(tokens) - 1))), Str(tokens[Len(tokens)])>>

\* The author indexes of the earlier script: key -> (first, last)
LegacyIndexes == {[k \in DOMAIN m |-> split_name(m[k])] : m \in AuthorIndexes}

LegacyWorkRecords ==
    WorkRecords
    \cup {[kind |-> "dict", type |-> Str(sTypePrefix \o sWork), key |-> Str(kOL1W),
           title |-> Str(sT), authors |-> [t |-> "list", refs |-> <<Str(kOL1A)>>],
           first_publish_date |-> fp] : fp \in {Str(s1999), Str(sNotADate)}}

\* akey: the key of the first author reference that has one
FirstKey(refs) ==
    IF \E i \in DOMAIN refs : Truthy(refs[i])
    THEN refs[CHOOSE i \in DOMAIN refs :
                Truthy(refs[i]) /\ \A j \in 1..(i - 1) : ~Truthy(refs[j])]
    ELSE Null

\* to_book_doc(work_obj, authors_map)
to_book_doc(work_obj, m) ==
    LET akey == FirstKey(RefsOf(work_obj))
        names == IF Truthy(akey) /\ akey.s \in DOMAIN m THEN m[akey.s] ELSE <<Null, Null>>
    IN  [title |-> Get(work_obj.title),
         author_first_name |-> names[1],
         author_last_name |-> names[2],
         country |-> Str(sUnknown),
         published_date |-> parse_date_maybe(work_obj.first_publish_date),
         out_of_print_date |-> Null,
         source |-> "openlibrary_works"]

\* One iteration of the loop of main over iter_works, with the bulk write of
\* a full batch.  col.bulk_write raises BulkWriteError when the store rejects
\* a document, and main does not catch it.
LegacyWork ==
    /\ wpc = "loop"
    /\ wi < MaxWorks
    /\ ~(wlimit # 0 /\ wi >= wlimit)
    /\ \E rec \in LegacyWorkRecords :
        LET doc == to_book_doc(rec, authors)
            ops == Append(batch, doc)
        IN  /\ wi' = wi + 1
            /\ work' = [rec |-> rec, doc |-> doc]
            /\ IF ~Truthy(doc.title)
               THEN UNCHANGED <<batch, inserted, calls, persisted, wpc>>
               ELSE IF Len(ops) >= batch_size
               THEN \E accepted \in SUBSET DOMAIN ops :
                        /\ calls' = Append(calls, ops)
                        /\ persisted' = persisted + Cardinality(accepted)
                        /\ IF accepted = DOMAIN ops
                           THEN /\ inserted' = inserted + Len(ops)
                                /\ batch' = <<>>
                                /\ wpc' = wpc
                           ELSE /\ wpc' = "crashed"
                                /\ batch' = ops
                                /\ UNCHANGED inserted
               ELSE /\ batch' = ops
                    /\ UNCHANGED <<inserted, calls, persisted, wpc>>
    /\ UNCHANGED <<authors, authorVars, wlimit, batch_size, seen, kept, mapped>>

\* iter_works returns: the file ends or the limit is reached
LegacyExhausted ==
    /\ wpc = "loop"
    /\ wpc' = "flush"
    /\ UNCHANGED <<authors, authorVars, wi, wlimit, batch_size, batch, inserted, seen, kept,
                   calls, persisted, mapped, work>>

\* The bulk write of the remaining operations and the print of inserted
LegacyFinal ==
    /\ wpc = "flush"
    /\ IF batch # <<>>
       THEN \E accepted \in SUBSET DOMAIN batch :
                /\ calls' = Append(calls, batch)
                /\ persisted' = persisted + Cardinality(accepted)
                /\ IF accepted = DOMAIN batch
                   THEN /\ inserted' = inserted + Len(batch)
                        /\ wpc' = "done"
                   ELSE /\ wpc' = "crashed"
                        /\ UNCHANGED inserted
                /\ UNCHANGED batch
       ELSE /\ wpc' = "done"
            /\ UNCHANGED <<batch, inserted, calls, persisted>>
    /\ UNCHANGED <<authors, authorVars, wi, wlimit, batch_size, seen, kept, mapped, work>>

----------------------------------------------------------------------------
(* main of ingest_openlibrary_dump.py and of import_data.py.  The command  *)
(* line and what the run finds (whether the store answers, which paths     *)
(* exist, how many documents the target collection holds) are in args; the *)
(* documents an ingestion adds are counted, not kept.                      *)

NoArgs ==
    [script |-> "none", json_sample |-> FALSE, works |-> FALSE, drop |-> FALSE,
     verify_after |-> FALSE, reachable |-> TRUE, exists_first |-> TRUE,
     exists_works |-> TRUE, ext |-> "json", docs |-> 0]

NotExited == 0 - 1

MainIdle ==
    /\ args = NoArgs /\ target = 0 /\ pre_count = 0 /\ total_inserted = 0
    /\ mpc = "idle" /\ rc = NotExited

NotCalled == [t |-> "pending", s |-> <<>>, d |-> <<>>]

ParseIdle == dinput = Null /\ dresult = NotCalled

\* The runs of ingest_openlibrary_dump.py: --json-sample or --authors (the
\* parser requires exactly one), with or without --works, --drop and
\* --verify-after
DumpArgs ==
    {[script |-> "dump", json_sample |-> js, works |-> w, drop |-> dr, verify_after |-> va,
      reachable |-> re, exists_first |-> e1, exists_works |-> e2, ext |-> "json",
      docs |-> n] :
        js \in BOOLEAN, w \in BOOLEAN, dr \in BOOLEAN, va \in BOOLEAN, re \in BOOLEAN,
        e1 \in BOOLEAN, e2 \in BOOLEAN, n \in 0..MaxTarget}

\* The runs of import_data.py
ImportArgs ==
    {[script |-> "import_data", json_sample |-> FALSE, works |-> FALSE, drop |-> FALSE,
      verify_after |-> FALSE, reachable |-> re, exists_first |-> e1,
      exists_works |-> FALSE, ext |-> x, docs |-> n] :
        re \in BOOLEAN, e1 \in BOOLEAN, x \in {"json", "csv", "other"}, n \in 0..MaxTarget}

\* main, lines 393-408: connect, ping and pre-count
Connect ==
    /\ mpc = "start" /\ args.script = "dump"
    /\ IF args.reachable
       THEN /\ pre_count' = target
            /\ mpc' = "drop"
            /\ UNCHANGED rc
       ELSE /\ rc' = 2
            /\ mpc' = "exit"
            /\ UNCHANGED pre_count
    /\ UNCHANGED <<args, target, total_inserted>>

\* main, lines 410-418: the drop, when requested; a failed drop is ignored
DropIfRequested ==
    /\ mpc = "drop"
    /\ IF args.drop
       THEN \E dropped \in BOOLEAN : target' = IF dropped THEN 0 ELSE target
       ELSE UNCHANGED target
    /\ mpc' = "dispatch"
    /\ UNCHANGED <<args, pre_count, total_inserted, rc>>

\* main, lines 420-422, with ingest_json_books: 0 for a file that does not
\* exist, otherwise the number of documents inserted
JsonSample ==
    /\ mpc = "dispatch" /\ args.json_sample
    /\ IF ~args.exists_first
       THEN /\ total_inserted' = 0
            /\ UNCHANGED target
       ELSE \E n \in 0..MaxIngested :
                /\ total_inserted' = n
                /\ target' = target + n
    /\ mpc' = "finish"
    /\ UNCHANGED <<args, pre_count, rc>>

\* main, lines 424-436: --works is required, then the path checks
ValidateInputs ==
    /\ mpc = "dispatch" /\ ~args.json_sample
    /\ IF ~args.works \/ ~args.exists_first \/ ~args.exists_works
       THEN rc' = 2 /\ mpc' = "exit"
       ELSE mpc' = "ingest" /\ UNCHANGED rc
    /\ UNCHANGED <<args, target, pre_count, total_inserted>>

\* main, lines 438-445: build_authors_map and ingest_works
IngestDump ==
    /\ mpc = "ingest"
    /\ \E n \in 0..MaxIngested :
        /\ total_inserted' = n
        /\ target' = target + n
    /\ mpc' = "finish"
    /\ UNCHANGED <<args, pre_count, rc>>

\* main, lines 447-460: indexes, verification and return 0
Finish ==
    /\ mpc = "finish"
    /\ rc' = 0
    /\ mpc' = "exit"
    /\ UNCHANGED <<args, target, pre_count, total_inserted>>

\* main of import_data.py: exit 2 for a missing path or an unsupported
\* extension, return when there is nothing to insert, otherwise insert_many,
\* whose exception ends the run with a traceback
ImportData ==
    /\ mpc = "start" /\ args.script = "import_data"
    /\ mpc' = "exit"
    /\ IF ~args.exists_first \/ args.ext = "other"
       THEN rc' = 2 /\ UNCHANGED <<target, total_inserted>>
       ELSE \E n \in 0..MaxIngested :
                IF n = 0
                THEN rc' = 0 /\ UNCHANGED <<target, total_inserted>>
                ELSE IF ~args.reachable
                THEN rc' = 1 /\ UNCHANGED <<target, total_inserted>>
                ELSE \E accepted \in 0..n :
                        /\ target' = target + accepted
                        /\ IF accepted = n
                           THEN rc' = 0 /\ total_inserted' = n
                           ELSE rc' = 1 /\ UNCHANGED total_inserted
    /\ UNCHANGED <<args, pre_count>>

----------------------------------------------------------------------------
(* Calls of parse_date_maybe                                               *)

DateParts ==
    {<<"1">>, <<"0", "1">>, <<"1", "3">>, <<"3", "1">>, <<"9", "9">>, <<"1", "9", "9", "9">>}

\* The strings handed to parse_date_maybe: three parts joined by a
\* separator, and strings of other shapes
DateStrings ==
    {a \o <<sep>> \o b \o <<sep>> \o c :
        a \in DateParts, b \in DateParts, c \in DateParts, sep \in {"-", "/", "."}}
    \cup {<<>>, <<" ">>, <<" ", " ">>, s99, s1999, s01_02_1999, <<" ">> \o s1999 \o <<" ">>,
          <<"+">> \o s1999, <<"0", "0", "0", "0">>, s1999 \o <<"0">>, <<"1", "_", "9">>,
          sNotADate, s1815_12_10 \o <<"T", "0", "3", ":", "0", "4", ":", "0", "5", "Z">>,
          s1815_12_10 \o <<" ", "0", "3", ":", "0", "4">>, s1815_12_10 \o <<"T">>}

DateInputs ==
    {Str(s) : s \in DateStrings} \cup {Null, Date(<<1999, 1, 2, 3, 4, 5>>)}

ParseDateMaybe ==
    /\ dresult = NotCalled
    /\ dresult' = parse_date_maybe(dinput)
    /\ UNCHANGED dinput

----------------------------------------------------------------------------
(* The query helpers as operations on the collection                       *)

NoLast ==
    [op |-> "none", fields |-> <<>>, limit |-> 0, n |-> 0, names |-> <<>>,
     docs |-> <<>>, counts |-> <<>>, agg |-> <<>>]

\* The field lists convert_date_fields is called with
FieldLists ==
    {<<"published_date">>, <<"out_of_print_date">>,
     <<"published_date", "out_of_print_date">>, <<"published_date", "published_date">>}

InitQuery ==
    /\ col = <<>>
    /\ last = NoLast
    /\ pre = <<>>
    /\ scenario \in Scenarios
    /\ ReaderIdle
    /\ IngestIdle
    /\ MainIdle /\ ParseIdle

\* insert_one / insert_many of the seeding code, one document at a time
InsertDoc ==
    /\ Len(col) < MaxDocs
    /\ \E d \in DocUniverse(scenario) :
        /\ col' = Append(col, d)
        /\ last' = [NoLast EXCEPT !.op = "insert"]
        /\ pre' = col
    /\ UNCHANGED scenario

RemoveEmptyOrNull ==
    LET r == remove_empty_or_null_author_last_name(col)
    IN  /\ col' = r.col
        /\ last' = [NoLast EXCEPT !.op = "remove", !.n = r.ret]
        /\ pre' = col
        /\ UNCHANGED scenario

UniqueAuthorFirstNames ==
    /\ last' = [NoLast EXCEPT !.op = "unique", !.names = unique_author_first_names(col)]
    /\ pre' = col
    /\ UNCHANGED <<col, scenario>>

ConvertDateFields ==
    \E fields \in FieldLists :
        LET r == convert_date_fields(col, fields)
        IN  /\ col' = r.col
            /\ last' = [NoLast EXCEPT !.op = "convert", !.fields = fields, !.n = r.ret]
            /\ pre' = col
            /\ UNCHANGED scenario

OldestByPublishedDate ==
    \E limit \in 0..MaxLimit :
        \E docs \in oldest_by_published_date(col, limit) :
            /\ last' = [NoLast EXCEPT !.op = "oldest", !.limit = limit, !.docs = docs]
            /\ pre' = col
            /\ UNCHANGED <<col, scenario>>

TenOldestBooks ==
    \E docs \in ten_oldest_books(col) :
        /\ last' = [NoLast EXCEPT !.op = "ten_oldest", !.limit = DefaultLimit, !.docs = docs]
        /\ pre' = col
        /\ UNCHANGED <<col, scenario>>

CountByCountryPython ==
    /\ last' = [NoLast EXCEPT !.op = "count_python", !.counts = count_by_country_python(col)]
    /\ pre' = col
    /\ UNCHANGED <<col, scenario>>

CountByCountryPipeline ==
    /\ last' = [NoLast EXCEPT !.op = "count_pipeline", !.agg = count_by_country_pipeline(col)]
    /\ pre' = col
    /\ UNCHANGED <<col, scenario>>

NextQuery ==
    \/ (InsertDoc /\ UNCHANGED <<readerVars, ingestVars, mainVars, parseVars>>)
    \/ (RemoveEmptyOrNull /\ UNCHANGED <<readerVars, ingestVars, mainVars, parseVars>>)
    \/ (UniqueAuthorFirstNames /\ UNCHANGED <<readerVars, ingestVars, mainVars, parseVars>>)
    \/ (ConvertDateFields /\ UNCHANGED <<readerVars, ingestVars, mainVars, parseVars>>)
    \/ (OldestByPublishedDate /\ UNCHANGED <<readerVars, ingestVars, mainVars, parseVars>>)
    \/ (TenOldestBooks /\ UNCHANGED <<readerVars, ingestVars, mainVars, parseVars>>)
    \/ (CountByCountryPython /\ UNCHANGED <<readerVars, ingestVars, mainVars, parseVars>>)
    \/ (CountByCountryPipeline /\ UNCHANGED <<readerVars, ingestVars, mainVars, parseVars>>)

SpecQuery == InitQuery /\ [][NextQuery]_vars

\* The collection when no query helper runs
QueryIdle ==
    /\ col = <<>>
    /\ last = NoLast
    /\ pre = <<>>
    /\ scenario = "dates"

InitReader == ReaderIdle /\ QueryIdle /\ IngestIdle /\ MainIdle /\ ParseIdle

SpecReader == InitReader /\ [][NextReader]_vars

InitAuthors ==
    /\ QueryIdle /\ ReaderIdle /\ WorksIdle /\ MainIdle /\ ParseIdle
    /\ authors = EmptyMap
    /\ scanned = <<>>
    /\ ai = 0
    /\ scan_limit \in {0, 1, 2}
    /\ apc = "scan"

NextAuthors ==
    \/ (ScanAuthor /\ UNCHANGED <<queryVars, readerVars, mainVars, parseVars>>)
    \/ (AuthorsExhausted /\ UNCHANGED <<queryVars, readerVars, mainVars, parseVars>>)

SpecAuthors == InitAuthors /\ [][NextAuthors]_vars

InitWorks ==
    /\ QueryIdle /\ ReaderIdle /\ AuthorsIdle /\ MainIdle /\ ParseIdle
    /\ \/ wpc = "loop" /\ authors \in AuthorIndexes /\ wlimit \in {0, 1, 2}
       \/ wpc = "json" /\ authors = EmptyMap /\ wlimit = 0
    /\ batch_size \in 1..MaxBatch
    /\ wi = 0 /\ batch = <<>> /\ inserted = 0 /\ seen = 0 /\ kept = 0
    /\ calls = <<>> /\ persisted = 0 /\ mapped = <<>> /\ work = NoWork

NextWorks ==
    \/ (IngestWork /\ UNCHANGED <<queryVars, readerVars, mainVars, parseVars>>)
    \/ (WorksExhausted /\ UNCHANGED <<queryVars, readerVars, mainVars, parseVars>>)
    \/ (IngestJsonBook /\ UNCHANGED <<queryVars, readerVars, mainVars, parseVars>>)
    \/ (JsonExhausted /\ UNCHANGED <<queryVars, readerVars, mainVars, parseVars>>)
    \/ (FinalInsert /\ UNCHANGED <<queryVars, readerVars, mainVars, parseVars>>)

SpecWorks == InitWorks /\ [][NextWorks]_vars

InitLegacy ==
    /\ QueryIdle /\ ReaderIdle /\ AuthorsIdle /\ MainIdle /\ ParseIdle
    /\ authors \in LegacyIndexes
    /\ wlimit \in {0, 1, 2}
    /\ batch_size \in 1..MaxBatch
    /\ wi = 0 /\ batch = <<>> /\ inserted = 0 /\ seen = 0 /\ kept = 0
    /\ calls = <<>> /\ persisted = 0 /\ mapped = <<>> /\ work = NoWork
    /\ wpc = "loop"

NextLegacy ==
    \/ (LegacyWork /\ UNCHANGED <<queryVars, readerVars, mainVars, parseVars>>)
    \/ (LegacyExhausted /\ UNCHANGED <<queryVars, readerVars, mainVars, parseVars>>)
    \/ (LegacyFinal /\ UNCHANGED <<queryVars, readerVars, mainVars, parseVars>>)

SpecLegacy == InitLegacy /\ [][NextLegacy]_vars

InitMain ==
    /\ QueryIdle /\ ReaderIdle /\ IngestIdle /\ ParseIdle
    /\ args \in DumpArgs \cup ImportArgs
    /\ target = args.docs
    /\ pre_count = 0
    /\ total_inserted = 0
    /\ mpc = "start"
    /\ rc = NotExited

NextMain ==
    \/ (Connect /\ UNCHANGED <<queryVars, readerVars, ingestVars, parseVars>>)
    \/ (DropIfRequested /\ UNCHANGED <<queryVars, readerVars, ingestVars, parseVars>>)
    \/ (JsonSample /\ UNCHANGED <<queryVars, readerVars, ingestVars, parseVars>>)
    \/ (ValidateInputs /\ UNCHANGED <<queryVars, readerVars, ingestVars, parseVars>>)
    \/ (IngestDump /\ UNCHANGED <<queryVars, readerVars, ingestVars, parseVars>>)
    \/ (Finish /\ UNCHANGED <<queryVars, readerVars, ingestVars, parseVars>>)
    \/ (ImportData /\ UNCHANGED <<queryVars, readerVars, ingestVars, parseVars>>)

SpecMain == InitMain /\ [][NextMain]_vars

InitParse ==
    /\ QueryIdle /\ ReaderIdle /\ IngestIdle /\ MainIdle
    /\ dinput \in DateInputs
    /\ dresult = NotCalled

NextParse ==
    \/ (ParseDateMaybe /\ UNCHANGED <<queryVars, readerVars, ingestVars, mainVars>>)

SpecParse == InitParse /\ [][NextParse]_vars

----------------------------------------------------------------------------
(* Claims about the query helpers, checked under SpecQuery                 *)

Min(a, b) == IF a <= b THEN a ELSE b

\* C3: for every collection state, count_by_country_pipeline and
\* count_by_country_python run on that state give the same country -> count
\* mapping (missing, null and also the empty string included).
C3_CountsAgree ==
    last.op = "count_pipeline" => AggDict(last.agg) = count_by_country_python(col)

\* C3, the part that does hold: missing and null country are counted under
\* "Unknown" by both implementations when no country is the empty string.
C3_CountsAgreeWithoutEmpty ==
    (last.op = "count_pipeline" /\ \A i \in DOMAIN col : col[i].country # Str(<<>>))
        => AggDict(last.agg) = count_by_country_python(col)

HoldsString(c, fields) ==
    \E i \in DOMAIN c : \E k \in DOMAIN fields : c[i][fields[k]].t = "string"

\* C7: after convert_date_fields(col, fields) no listed field of any document
\* holds a string, a run that starts from such a state returns 0, and so
\* running it again on the state it left returns 0.
C7_ConvertIdempotent ==
    last.op = "convert" =>
        /\ ~HoldsString(col, last.fields)
        /\ (~HoldsString(pre, last.fields) => last.n = 0 /\ col = pre)
        /\ convert_date_fields(col, last.fields).ret = 0

\* C7 witness: a run that modified documents and overwrote an unparseable
\* string with null.
C7_Witness ==
    /\ last.op = "convert" /\ last.n >= 2
    /\ \E i \in DOMAIN col :
        /\ pre[i].published_date = Str(sNotADate)
        /\ col[i].published_date = Null

NamesOf(c) ==
    {c[i].author_first_name : i \in DOMAIN c} \ {Missing, Null, Str(<<>>)}

SortedByLower(names) ==
    \A i \in 1..(Len(names) - 1) : StrLeq(Lower(names[i].s), Lower(names[i + 1].s))

\* C8 as stated: unique_author_first_names returns the non-empty values,
\* no two of them equal when lowercased, in ascending order of lowercase form.
C8_CaseInsensitiveDedup ==
    last.op = "unique" =>
        /\ Range(last.names) \subseteq NamesOf(col)
        /\ \A v \in NamesOf(col) : \E w \in Range(last.names) : Lower(w.s) = Lower(v.s)
        /\ \A i, j \in DOMAIN last.names :
                i # j => Lower(last.names[i].s) # Lower(last.names[j].s)
        /\ SortedByLower(last.names)

\* C8 amended: unique_author_first_names returns every non-empty
\* author_first_name value exactly once, values being compared exactly (two
\* values that differ only in case are both returned), in non-descending
\* order of lowercase form.
C8_ExactDedupSortedByLower ==
    last.op = "unique" =>
        /\ Range(last.names) = NamesOf(col)
        /\ \A i, j \in DOMAIN last.names : i # j => last.names[i] # last.names[j]
        /\ SortedByLower(last.names)

\* C8 witness: two values that differ only in case are both returned.
C8_Witness ==
    /\ last.op = "unique"
    /\ {Str(sAda), Str(sada)} \subseteq Range(last.names)

HasLastName(d) == d.author_last_name.t = "string" /\ d.author_last_name.s # <<>>

\* C9: remove_empty_or_null_author_last_name returns the number of documents
\* it deleted, leaves no document whose author_last_name is "" or null, and
\* leaves the documents with a non-empty author_last_name as they were.
C9_RemoveEmptyOrNull ==
    last.op = "remove" =>
        /\ last.n = Len(pre) - Len(col)
        /\ \A i \in DOMAIN col : col[i].author_last_name \notin {Str(<<>>), Null}
        /\ SelectSeq(col, HasLastName) = SelectSeq(pre, HasLastName)
        /\ Range(col) \subseteq Range(pre)

\* C9 witness: as in the test, one document with "" and one with null are
\* deleted.
C9_Witness ==
    /\ last.op = "remove" /\ last.n = 2
    /\ \E i, j \in DOMAIN pre :
        /\ pre[i].author_last_name = Str(<<>>)
        /\ pre[j].author_last_name = Null

DateDocs(c) == SelectSeq(c, IsDate)

OldestShape(docs, c) ==
    /\ \A i \in DOMAIN docs : docs[i].published_date.t = "date"
    /\ \A i \in 1..(Len(docs) - 1) :
            DateLeq(docs[i].published_date, docs[i + 1].published_date)
    /\ Range(docs) \subseteq {Project(c[i]) : i \in DOMAIN c}
    /\ \A i \in DOMAIN c : \A j \in DOMAIN docs :
            (IsDate(c[i]) /\ DateLess(c[i].published_date, docs[j].published_date))
                => Project(c[i]) \in Range(docs)

\* C10 as stated: oldest_by_published_date(col, N) returns min(N, number of
\* timestamp documents) documents, all with a timestamp published_date, in
\* ascending order, none later than an excluded timestamp document.
C10_OldestMinN ==
    last.op \in {"oldest", "ten_oldest"} =>
        /\ Len(last.docs) = Min(last.limit, Len(DateDocs(col)))
        /\ OldestShape(last.docs, col)

\* C10 amended: for N >= 1 the statement holds as written (with no argument
\* N is 10); for N = 0 the store applies no limit and every timestamp
\* document is returned, in ascending order.
C10_OldestMinNPositive ==
    last.op \in {"oldest", "ten_oldest"} =>
        /\ last.limit >= 1 => Len(last.docs) = Min(last.limit, Len(DateDocs(col)))
        /\ last.limit = 0 => Len(last.docs) = Len(DateDocs(col))
        /\ last.op = "ten_oldest" => last.limit = 10
        /\ OldestShape(last.docs, col)

\* C10 witness: a limit that cuts the result, a later timestamp document
\* being left out.
C10_Witness ==
    /\ last.op = "oldest" /\ last.limit = 1 /\ Len(last.docs) = 1
    /\ \E j \in DOMAIN col :
        IsDate(col[j]) /\ DateLess(last.docs[1].published_date, col[j].published_date)

----------------------------------------------------------------------------
(* Claims about the reader and the detector, checked under SpecReader      *)

IsObjectText(f) == f \in JsonTexts /\ JsonValue(f).t = "dict"

RecordsFrom(i) == SelectSeq(out, LAMBDA r : r.line = i)

\* The line of the scenario: three fields, a JSON object in the middle, a key
\* before it and a date after it
MiddleObjectLine(line) ==
    /\ Len(line) = 3
    /\ IsObjectText(line[2])
    /\ ~IsObjectText(line[1]) /\ ~IsObjectText(line[3])

\* C2 as stated: for a three-field line whose middle field is a JSON object
\* and whose first and third fields are not, iter_records (in either mode)
\* yields exactly one record, the object of the middle field.
C2_MiddleFieldParsed ==
    \A i \in DOMAIN source :
        (rop = "iter" /\ i < lineno /\ MiddleObjectLine(source[i]))
            => RecordsFrom(i) = <<[line |-> i, rec |-> JsonValue(source[i][2])]>>

\* C2 amended: iter_records, in either detected mode, yields exactly one
\* record for a tab-separated line whose last field is a JSON object, that
\* object; for the three-field line of the scenario (key, object, date) it
\* yields no record, while parse_dump_line of the legacy script returns the
\* object of the middle field.
C2_LastFieldParsed ==
    \A i \in DOMAIN source :
        /\ (rop = "iter" /\ i < lineno /\ HasTab(source[i])
                /\ IsObjectText(source[i][Len(source[i])]))
              => RecordsFrom(i) =
                    <<[line |-> i, rec |-> JsonValue(source[i][Len(source[i])])]>>
        /\ (rop = "iter" /\ i < lineno
                /\ source[i] = <<"somekey", "{A}", "2020-01-01">>)
              => RecordsFrom(i) = <<>>
        /\ (rop = "legacy" /\ MiddleObjectLine(source[i]))
              => RecordsFrom(i) = <<[line |-> i, rec |-> JsonValue(source[i][2])]>>

\* C2 witness: a file read in tsv_json mode to its end, with a line that
\* carries its object in the last of three fields and the line of the scenario
C2_Witness ==
    /\ rop = "iter" /\ det.mode = "tsv_json" /\ lineno = Len(source) + 1
    /\ \E i, j \in DOMAIN source :
        /\ source[i] = <<"somekey", "2020-01-01", "{A}">> /\ RecordsFrom(i) # <<>>
        /\ source[j] = <<"somekey", "{A}", "2020-01-01">>

IsBlankLine(line) == \A k \in DOMAIN line : line[k] = ""

\* Whole-line JSON: one JSON text, whitespace around it allowed
IsJsonLine(line) ==
    LET texts == SelectSeq(line, NonEmptyField)
    IN  Len(texts) = 1 /\ texts[1] \in JsonTexts

\* Tab-separated with JSON in the last column
IsTsvLine(line) ==
    LET fields == StripFields(line)
    IN  Len(fields) >= 2 /\ fields[Len(fields)] \in JsonTexts

AllJson(src) == \A i \in DOMAIN src : IsBlankLine(src[i]) \/ IsJsonLine(src[i])
AllTsv(src) == \A i \in DOMAIN src : IsBlankLine(src[i]) \/ IsTsvLine(src[i])

\* The first n lines hold a tab-separated line whose last column is a JSON
\* value other than null
CountedWithin(src, n) ==
    \E i \in DOMAIN src :
        /\ i <= n
        /\ IsTsvLine(src[i])
        /\ JsonValue(StripFields(src[i])[Len(StripFields(src[i]))]).t # "none"

LargerSamples(n) == {m \in 1..(Len(source) + 1) : m > n} \cup {DefaultSample}

----------------------------------------------------------------------------
(* Claims about the author index builder, checked under SpecAuthors        *)

\* A record that qualifies for the index: an author record (by type, or by
\* the prefix of its key) with a non-empty key and a name or personal name
Qualifies(rec) ==
    /\ rec.kind = "dict"
    /\ \/ rec.type \in {Str(sTypePrefix \o sAuthor), Dict(sTypePrefix \o sAuthor),
                        Str(sAuthor), Dict(sAuthor)}
       \/ rec.key.t = "string" /\ StartsWith(rec.key.s, sAuthorsPrefix)
    /\ rec.key.t = "string" /\ rec.key.s # <<>>
    /\ \/ rec.name.t = "string" /\ rec.name.s # <<>>
       \/ rec.personal_name.t = "string" /\ rec.personal_name.s # <<>>

DisplayName(rec) ==
    IF rec.name.t = "string" /\ rec.name.s # <<>> THEN rec.name.s ELSE rec.personal_name.s

\* C5: every key of the index is the key of a qualifying record that was
\* scanned, its name is the name of the last such record, and every scanned
\* qualifying record has its key in the index; so no entry comes from a
\* record without a key or without a name.
C5_AuthorIndex ==
    /\ \A k \in DOMAIN authors :
        \E i \in DOMAIN scanned :
            /\ Qualifies(scanned[i]) /\ scanned[i].key.s = k
            /\ \A j \in DOMAIN scanned :
                    (j > i /\ Qualifies(scanned[j])) => scanned[j].key.s # k
            /\ authors[k] = DisplayName(scanned[i])
    /\ \A i \in DOMAIN scanned :
        Qualifies(scanned[i]) => scanned[i].key.s \in DOMAIN authors

\* C5 witness: a key scanned twice with different names, the later name
\* being a personal name, after a record without a key
C5_Witness ==
    /\ apc = "done" /\ Len(scanned) = 2
    /\ Qualifies(scanned[1]) /\ Qualifies(scanned[2])
    /\ scanned[1].key = scanned[2].key
    /\ scanned[1].name = Str(sJaneQDoe)
    /\ scanned[2].name = Str(<<>>)
    /\ authors[scanned[2].key.s] = sJDoe

----------------------------------------------------------------------------
(* Claims about the works ingestion of the dump script, under SpecWorks    *)

RECURSIVE TotalLen(_)
TotalLen(cs) == IF cs = <<>> THEN 0 ELSE Len(Head(cs)) + TotalLen(Tail(cs))

DocsHanded == UNION {Range(calls[i]) : i \in DOMAIN calls}

\* C1: every document handed to the store by ingest_works has a non-empty
\* title and a non-empty authors list.
C1_TitleAndAuthors ==
    \A d \in DocsHanded :
        /\ d.title.t = "string" /\ d.title.s # <<>>
        /\ d.authors # <<>>

\* The part of C1 that the code keeps: every document ingest_works hands to
\* the store has a non-empty authors list of names found in the author index.
C1_AuthorsNonEmpty ==
    seen > 0 => \A d \in DocsHanded :
        /\ d.authors # <<>>
        /\ \A i \in DOMAIN d.authors : \E k \in DOMAIN authors : authors[k] = d.authors[i]

C1_AuthorsWitness ==
    /\ wpc = "done"
    /\ \E d \in DocsHanded : d.title = Null /\ Len(d.authors) = 2

\* In ingest_works the count returned is the number of documents the store
\* persisted, and every kept document was handed to the store.
IngestWorksCountsPersisted ==
    wpc = "done" =>
        /\ inserted = persisted
        /\ kept = TotalLen(calls)

----------------------------------------------------------------------------
(* Claims about the counts of an ingestion run, under SpecLegacy           *)

\* C4: a batch in which the store rejects a document does not abort the run,
\* and the inserted count reported at the end is the number of documents the
\* store persisted, summed over the batches.
C4_InsertedIsPersisted ==
    /\ wpc # "crashed"
    /\ wpc = "done" => inserted = persisted

----------------------------------------------------------------------------
(* Claims about to_book_doc of the earlier script, under SpecLegacy        *)

\* The positions of the author references of a work whose key is in the index
ResolvingRefs(rec) ==
    {i \in DOMAIN RefsOf(rec) :
        RefsOf(rec)[i].t = "string" /\ RefsOf(rec)[i].s \in DOMAIN authors}

\* C11: the document built from a work carries the first and last name of
\* the first author reference, in list order, whose key is in the index (the
\* later one when an earlier one does not resolve), no names when none
\* resolves, and the country "Unknown".
C11_FirstResolvableAuthor ==
    work # NoWork =>
        /\ work.doc.country = Str(sUnknown)
        /\ IF ResolvingRefs(work.rec) = {}
           THEN work.doc.author_first_name = Null /\ work.doc.author_last_name = Null
           ELSE LET i == CHOOSE i \in ResolvingRefs(work.rec) :
                            \A j \in ResolvingRefs(work.rec) : i <= j
                    k == RefsOf(work.rec)[i].s
                IN  /\ work.doc.author_first_name = authors[k][1]
                    /\ work.doc.author_last_name = authors[k][2]

\* What to_book_doc does: the names are those of the first reference that
\* has a key, when that key is in the index, and are null otherwise.
FirstKeyedAuthor ==
    work # NoWork =>
        /\ work.doc.country = Str(sUnknown)
        /\ LET keyed == {i \in DOMAIN RefsOf(work.rec) : RefsOf(work.rec)[i].t = "string"}
           IN  IF keyed = {} \/ (keyed # {} /\
                    RefsOf(work.rec)[CHOOSE i \in keyed : \A j \in keyed : i <= j].s
                        \notin DOMAIN authors)
               THEN work.doc.author_first_name = Null /\ work.doc.author_last_name = Null
               ELSE LET k == RefsOf(work.rec)[CHOOSE i \in keyed : \A j \in keyed : i <= j].s
                    IN  /\ work.doc.author_first_name = authors[k][1]
                        /\ work.doc.author_last_name = authors[k][2]

----------------------------------------------------------------------------
(* Claims about the exit of the ingestion scripts, under SpecMain          *)

\* The input paths the run requires all exist
RequiredInputsExist ==
    IF args.script = "dump" /\ ~args.json_sample
    THEN args.works /\ args.exists_first /\ args.exists_works
    ELSE args.exists_first

\* C12: a run whose required input path (--json-sample, --authors, --works,
\* or the path of import_data.py) does not exist ends with a non-zero exit
\* status: status 0 is reached only when every required input existed.
C12_MissingInputNonZeroExit ==
    (mpc = "exit" /\ rc = 0) => RequiredInputsExist

\* A missing --authors or --works path, and the path of import_data.py, do
\* end the run with status 2.
MissingDumpOrImportPathExits2 ==
    (mpc = "exit" /\ ~args.json_sample /\ ~RequiredInputsExist
        /\ (args.script = "dump" => args.reachable)) => rc = 2

\* The run ended in the validation of --authors and --works
FatalStartup ==
    /\ mpc = "exit" /\ rc = 2
    /\ args.script = "dump" /\ args.reachable /\ ~args.json_sample

\* C15: a run of ingest_openlibrary_dump.py that ends in a fatal-startup
\* error (no --works, or a missing --authors or --works path) leaves the
\* target collection as it was, also with --drop.
C15_FatalStartupKeepsCollection ==
    FatalStartup => target = args.docs

\* Without --drop such a run leaves the collection as it was.
FatalStartupWithoutDropKeepsCollection ==
    (FatalStartup /\ ~args.drop) => target = args.docs

----------------------------------------------------------------------------
(* Claims about parse_date_maybe, under SpecParse                          *)

\* The stripped string matches one of the six separator formats
MatchesSeparatorFormat(s) == \E i \in 1..6 : strptime(s, fmts[i]) # Raise

\* What the first matching separator format gives
FirstSeparatorFormat(s) ==
    strptime(s, fmts[CHOOSE i \in 1..6 :
                        /\ strptime(s, fmts[i]) # Raise
                        /\ \A j \in 1..(i - 1) : strptime(s, fmts[j]) = Raise])

IsBareYear(s) == Len(s) = 4 /\ AllDigits(s)

IsIso8601(s) == fromisoformat(ReplaceZ(s)) # Raise

\* C13: parse_date_maybe returns a timestamp or null and never raises; null
\* for an empty or blank string and for every string that is none of the six
\* separator formats, a bare 4-digit year or ISO-8601 (so null for "99"); a
\* string matching several formats is parsed by the first in the fixed order.
C13_NullOutsideRecognizedSet ==
    (dresult # NotCalled /\ dinput.t = "string") =>
        LET s == Strip(dinput.s)
        IN  /\ dresult.t \in {"date", "null"}
            /\ s = <<>> => dresult = Null
            /\ ~(MatchesSeparatorFormat(s) \/ IsBareYear(s) \/ IsIso8601(s)) => dresult = Null
            /\ MatchesSeparatorFormat(s) => dresult = FirstSeparatorFormat(s)

\* What holds: the result is a timestamp or null, null for a blank string,
\* the first matching separator format wins, and a string that matches none
\* of them and is not ISO-8601 gives null unless int() accepts it as a year
\* from 1 to 9999, whatever its number of digits.
NullUnlessIntYear ==
    (dresult # NotCalled /\ dinput.t = "string") =>
        LET s == Strip(dinput.s)
        IN  /\ dresult.t \in {"date", "null"}
            /\ s = <<>> => dresult = Null
            /\ MatchesSeparatorFormat(s) => dresult = FirstSeparatorFormat(s)
            /\ (s # <<>> /\ ~MatchesSeparatorFormat(s) /\ PyIntOk(s) /\ PyIntVal(s) \in 1..9999)
                    => dresult = Date(<<PyIntVal(s), 1, 1, 0, 0, 0>>)
            /\ ~(MatchesSeparatorFormat(s) \/ IsIso8601(s)
                    \/ (PyIntOk(s) /\ PyIntVal(s) \in 1..9999)) => dresult = Null

\* The day comes before the month for a string that matches both orders.
DayBeforeMonthReached ==
    /\ dinput = Str(s01_02_1999)
    /\ dresult = Date(<<1999, 2, 1, 0, 0, 0>>)

----------------------------------------------------------------------------
(* Claims about batching in ingest_works and ingest_json_books, under      *)
(* SpecWorks                                                               *)

RECURSIVE Flatten(_)
Flatten(cs) == IF cs = <<>> THEN <<>> ELSE Head(cs) \o Flatten(Tail(cs))

\* C14: the documents of the insert calls, in call order, followed by the
\* pending batch, are exactly the eligible documents in the order they were
\* built; no call is empty or larger than batch_size, every call but the
\* last of a finished run holds exactly batch_size documents, and a finished
\* run has no pending document.
C14_BatchesCarryEveryDocument ==
    /\ Flatten(calls) \o batch = mapped
    /\ \A i \in DOMAIN calls : Len(calls[i]) \in 1..batch_size
    /\ \A i \in DOMAIN calls :
            (i < Len(calls) \/ wpc \in {"loop", "json", "flush"}) => Len(calls[i]) = batch_size
    /\ wpc = "done" => batch = <<>>

\* C14 witness: a finished run of ingest_json_books (seen stays 0) with
\* batch_size 2 and three eligible documents: a full call, then the flush of
\* the remaining one
C14_Witness ==
    /\ wpc = "done" /\ batch_size = 2 /\ seen = 0
    /\ Len(mapped) = 3
    /\ Len(calls) = 2 /\ Len(calls[1]) = 2 /\ Len(calls[2]) = 1

\* The same for ingest_works
IngestWorksPartialFlushReached ==
    /\ wpc = "done" /\ batch_size = 2 /\ seen = 3
    /\ Len(calls) = 2 /\ Len(calls[1]) = 2 /\ Len(calls[2]) = 1

====
